---- MODULE Spec2Model ----
(***************************************************************************)
(* Model of the audio capture hook useAudioRecorder                        *)
(* (src/frontend/src/hooks/useAudioRecorder.js): the recording controller  *)
(* (startRecording / stopRecording / auto-stop timer / unmount cleanup),   *)
(* the frame callback feeding the sample buffer, and the WAV encoder.      *)
(*                                                                         *)
(* JavaScript runs each handler to completion, so one action is one        *)
(* handler run between two suspension points.  startRecording suspends     *)
(* once, at `await getUserMedia`; it is therefore two actions: the call    *)
(* (lines 17-23) and the continuation (lines 29-58, or the catch block).   *)
(*                                                                         *)
(* Every startRecording() invocation is one session, numbered 1, 2, ...    *)
(* in call order.  The browser objects a session creates (its MediaStream, *)
(* AudioContext, ScriptProcessor and timeout) are named by the session's   *)
(* number; the hook's refs hold such a number, or 0 for null.              *)
(***************************************************************************)
EXTENDS Integers, Sequences, FiniteSets, TLC

\* ---------------------------------------------------------------- bounds
\* number of startRecording() invocations explored
MaxSessions == 2
\* number of onaudioprocess deliveries explored
MaxFrames == 2
\* encoder inputs: frames per buffer and samples per frame (structure),
\* samples per frame (quantization)
MaxEncFrames == 2
MaxEncLen == 2
MaxQuantLen == 2
\* the page: startRecording() calls, and pending timeouts / requests of a kind
MaxPageSessions == 3
MaxPageTimers == 1

\* ------------------------------------------------------------- constants
\* sample rate handed to encodeWAV by stopRecording
SampleRate == 16000
\* samples are rationals n / SampleDen; 1.0 is SampleDen (a denominator that
\* does not divide 32768, so that scaled negative samples have fractions)
SampleDen == 10

Sessions == 1..MaxSessions

\* null for a ref holding a session's object, and for the React states
NoRef == 0
NoBlob == << >>
NoError == "null"
MicError == "Could not access microphone. Please check permissions."

\* the Float32Array contents a device callback may deliver
FrameInputs == { <<SampleDen, -1>> }

VARIABLES
    \* React state returned by the hook
    isRecording, audioBlob, error, audioStream,
    \* refs
    audioContextRef, processorRef, streamRef, chunksRef, timerRef,
    isRecordingRef,
    \* whether the component is still mounted (cleanup effect not yet run)
    mounted,
    \* browser objects, per session
    stream,      \* "none" | "live" | "stopped"     (MediaStream tracks)
    stopCalls,   \* number of track.stop() rounds on the session's stream
    ctx,         \* "none" | "running" | "closed"   (AudioContext)
    closeCalls,  \* number of close() calls on the session's context
    proc,        \* "none" | "connected" | "disconnected" (ScriptProcessor)
    timer,       \* "none" | "pending" | "fired" | "cleared" (setTimeout)
    \* history
    session,     \* "Idle" | "Acquiring" | "Active" | "Finalized" | "Failed" | "Discarded"
    blobs,       \* number of setAudioBlob(wav) completions per session
    errs,        \* number of setError(msg) completions per session
    delivered,   \* frames delivered while Active since start() last reset the buffer
    nextFrame,   \* number of the next frame a device delivers
    lastOp,      \* the handler that ran last
    \* the page that uses the hook (Home)
    appState,     \* "idle" | "recording" | "processing" | "result" | "error" | "feedback_submitted"
    result,       \* "null" | "data"
    actionTimers, \* pending 2 s timeouts of handleAction
    errorTimers,  \* pending 3 s timeouts of the upload-failure path
    uploads,      \* sendAudioToBackend calls in flight
    feedbacks,    \* submitFeedback calls (corrections) in flight
    handed,       \* history: number of handleAudioUpload calls
    \* the sampleRate argument of encodeWAV
    encRate

reactVars == <<isRecording, audioBlob, error, audioStream>>
refVars == <<audioContextRef, processorRef, streamRef, chunksRef, timerRef, isRecordingRef>>
envVars == <<stream, stopCalls, ctx, closeCalls, proc, timer>>
histVars == <<session, blobs, errs, delivered, nextFrame, lastOp>>
pageVars == <<appState, result, actionTimers, errorTimers, uploads, feedbacks, handed>>
\* what the hook never writes
outerVars == <<pageVars, encRate>>
vars == <<reactVars, refVars, mounted, envVars, histVars, outerVars>>

\* the state the hook's code reads and writes, and the browser objects
hookVars == <<reactVars, refVars, envVars>>

\* ------------------------------------------------------------ WAV encoder
\* A DataView over an ArrayBuffer is a sequence of bytes; byte offset k of the
\* view is element k + 1 of the sequence.

\* new ArrayBuffer(n): n zero bytes
ArrayBuffer(n) == [i \in 1..n |-> 0]

\* view.setUint8(offset, value)
setUint8(view, offset, value) ==
    [i \in 1..Len(view) |-> IF i - 1 = offset THEN value % 256 ELSE view[i]]

\* setUint16 without the little-endian flag: high byte first
setUint16_bigEndian(view, offset, value) ==
    [i \in 1..Len(view) |->
        IF i - 1 = offset THEN (value \div 256) % 256
        ELSE IF i - 1 = offset + 1 THEN value % 256
        ELSE view[i]]

\* view.setUint16(offset, value, true): little-endian, value taken modulo 2^16
setUint16(view, offset, value) ==
    [i \in 1..Len(view) |->
        IF i - 1 = offset THEN (value % 65536) % 256
        ELSE IF i - 1 = offset + 1 THEN (value % 65536) \div 256
        ELSE view[i]]

\* setUint32 without the little-endian flag: most significant byte first
setUint32_bigEndian(view, offset, value) ==
    [i \in 1..Len(view) |->
        IF i - 1 = offset THEN (value \div 16777216) % 256
        ELSE IF i - 1 = offset + 1 THEN (value \div 65536) % 256
        ELSE IF i - 1 = offset + 2 THEN (value \div 256) % 256
        ELSE IF i - 1 = offset + 3 THEN value % 256
        ELSE view[i]]

\* view.setUint32(offset, value, true): little-endian, value taken modulo 2^32
\* (byte k of the value modulo 2^32 is the value divided by 256^k, modulo 256)
setUint32(view, offset, value) ==
    [i \in 1..Len(view) |->
        IF i - 1 = offset THEN value % 256
        ELSE IF i - 1 = offset + 1 THEN (value \div 256) % 256
        ELSE IF i - 1 = offset + 2 THEN (value \div 65536) % 256
        ELSE IF i - 1 = offset + 3 THEN (value \div 16777216) % 256
        ELSE view[i]]

\* rounding down (Math.floor) instead of toward zero
Trunc_floor(num, den) == num \div den

\* the integer part of num / den, rounded toward zero (den > 0)
Trunc(num, den) == IF num >= 0 THEN num \div den ELSE -((-num) \div den)

\* view.setInt16(offset, num / den, true): the number is truncated toward
\* zero, taken modulo 2^16 (two's complement) and stored little-endian
setInt16(view, offset, num, den) == setUint16(view, offset, Trunc(num, den) % 65536)

\* the character codes of the four tags written by encodeWAV
TagRIFF == <<82, 73, 70, 70>>
TagWAVE == <<87, 65, 86, 69>>
TagFmt == <<102, 109, 116, 32>>
TagData == <<100, 97, 116, 97>>

\* writeString(view, offset, string): one setUint8 per character
RECURSIVE writeStringFrom(_, _, _, _)
writeStringFrom(view, offset, string, i) ==
    IF i > Len(string) THEN view
    ELSE writeStringFrom(setUint8(view, offset + (i - 1), string[i]), offset, string, i + 1)

writeString(view, offset, string) == writeStringFrom(view, offset, string, 1)

\* the clamp of line 165 lost
Clamp_none(x) == x

\* Math.max(-1, Math.min(1, x)) on numerators over SampleDen
Clamp(x) ==
    LET lo == IF x < SampleDen THEN x ELSE SampleDen
    IN  IF lo > -SampleDen THEN lo ELSE -SampleDen

\* floatTo16BitPCM(output, offset, input): the loop from index i on
RECURSIVE floatTo16BitPCMFrom(_, _, _, _)
floatTo16BitPCMFrom(output, offset, input, i) ==
    IF i > Len(input) THEN output
    ELSE LET s == Clamp(input[i])
         IN  floatTo16BitPCMFrom(
                 setInt16(output, offset, IF s < 0 THEN s * 32768 ELSE s * 32767, SampleDen),
                 offset + 2, input, i + 1)

floatTo16BitPCM(output, offset, input) == floatTo16BitPCMFrom(output, offset, input, 1)

\* the reduce counting chunks instead of samples
RECURSIVE TotalLength_countsChunks(_)
TotalLength_countsChunks(samples) ==
    IF samples = << >> THEN 0 ELSE 1 + TotalLength_countsChunks(Tail(samples))

\* samples.reduce((acc, chunk) => acc + chunk.length, 0)
RECURSIVE TotalLength(_)
TotalLength(samples) ==
    IF samples = << >> THEN 0 ELSE Len(Head(samples)) + TotalLength(Tail(samples))

\* buffer.set(chunk, offset) on a Float32Array
BufferSet(buffer, chunk, offset) ==
    [i \in 1..Len(buffer) |->
        IF i - 1 >= offset /\ i - 1 < offset + Len(chunk) THEN chunk[i - offset] ELSE buffer[i]]

\* the flattening loop with `offset += chunk.length` lost
RECURSIVE FlattenFrom_offsetStuck(_, _, _, _)
FlattenFrom_offsetStuck(buffer, samples, k, offset) ==
    IF k > Len(samples) THEN buffer
    ELSE FlattenFrom_offsetStuck(BufferSet(buffer, samples[k], offset), samples, k + 1,
                                 offset)

\* the flattening loop of encodeWAV, from chunk k on
RECURSIVE FlattenFrom(_, _, _, _)
FlattenFrom(buffer, samples, k, offset) ==
    IF k > Len(samples) THEN buffer
    ELSE FlattenFrom(BufferSet(buffer, samples[k], offset), samples, k + 1,
                     offset + Len(samples[k]))

\* encodeWAV with the byte rate written as the sample rate (block align
\* forgotten at line 143)
encodeWAV_byteRateIsRate(samples, sampleRate) ==
    LET bufferLength == TotalLength(samples)
        buffer == FlattenFrom([i \in 1..bufferLength |-> 0], samples, 1, 0)
        bufferSize == Len(buffer) * 2
        v0 == ArrayBuffer(44 + bufferSize)
        v1 == writeString(v0, 0, TagRIFF)
        v2 == setUint32(v1, 4, 36 + bufferSize)
        v3 == writeString(v2, 8, TagWAVE)
        v4 == writeString(v3, 12, TagFmt)
        v5 == setUint32(v4, 16, 16)
        v6 == setUint16(v5, 20, 1)
        v7 == setUint16(v6, 22, 1)
        v8 == setUint32(v7, 24, sampleRate)
        v9 == setUint32(v8, 28, sampleRate)
        v10 == setUint16(v9, 32, 2)
        v11 == setUint16(v10, 34, 16)
        v12 == writeString(v11, 36, TagData)
        v13 == setUint32(v12, 40, bufferSize)
    IN  floatTo16BitPCM(v13, 44, buffer)

\* encodeWAV(samples, sampleRate): samples is the sequence of Float32Arrays,
\* the result the bytes of the Blob
encodeWAV(samples, sampleRate) ==
    LET bufferLength == TotalLength(samples)
        buffer == FlattenFrom([i \in 1..bufferLength |-> 0], samples, 1, 0)
        bufferSize == Len(buffer) * 2
        v0 == ArrayBuffer(44 + bufferSize)
        v1 == writeString(v0, 0, TagRIFF)
        v2 == setUint32(v1, 4, 36 + bufferSize)
        v3 == writeString(v2, 8, TagWAVE)
        v4 == writeString(v3, 12, TagFmt)
        v5 == setUint32(v4, 16, 16)
        v6 == setUint16(v5, 20, 1)
        v7 == setUint16(v6, 22, 1)
        v8 == setUint32(v7, 24, sampleRate)
        v9 == setUint32(v8, 28, sampleRate * 2)
        v10 == setUint16(v9, 32, 2)
        v11 == setUint16(v10, 34, 16)
        v12 == writeString(v11, 36, TagData)
        v13 == setUint32(v12, 40, bufferSize)
    IN  floatTo16BitPCM(v13, 44, buffer)

\* the Float32Arrays held by the frames of the sample buffer
Arrays(chunks) == [i \in 1..Len(chunks) |-> chunks[i].data]

\* ------------------------------------------------------------- the hook
\* Home, lines 20-23: the page starts idle with no result
PageInit ==
    /\ appState = "idle"
    /\ result = "null"
    /\ actionTimers = 0
    /\ errorTimers = 0
    /\ uploads = 0
    /\ feedbacks = 0
    /\ handed = 0

\* the hook after construction (lines 4-15), with room for the sessions in S
HookInit(S) ==
    /\ isRecording = FALSE
    /\ audioBlob = NoBlob
    /\ error = NoError
    /\ audioStream = NoRef
    /\ audioContextRef = NoRef
    /\ processorRef = NoRef
    /\ streamRef = NoRef
    /\ chunksRef = << >>
    /\ timerRef = NoRef
    /\ isRecordingRef = FALSE
    /\ mounted = TRUE
    /\ stream = [s \in S |-> "none"]
    /\ stopCalls = [s \in S |-> 0]
    /\ ctx = [s \in S |-> "none"]
    /\ closeCalls = [s \in S |-> 0]
    /\ proc = [s \in S |-> "none"]
    /\ timer = [s \in S |-> "none"]
    /\ session = [s \in S |-> "Idle"]
    /\ blobs = [s \in S |-> 0]
    /\ errs = [s \in S |-> 0]
    /\ delivered = << >>
    /\ nextFrame = 1
    /\ lastOp = "init"

Init ==
    /\ HookInit(Sessions)
    /\ PageInit
    /\ encRate = SampleRate

\* clearTimeout(id): a pending timeout is cancelled, any other is left alone
clearTimeout(tmr, id) ==
    IF id # NoRef /\ tmr[id] = "pending" THEN [tmr EXCEPT ![id] = "cleared"] ELSE tmr

\* startRecording, lines 17-23: the outcome fields and the buffer are reset
\* and getUserMedia is requested; the call suspends at the await.
\* The page calls it from a click handler, so only while mounted.
StartCall(s) ==
    /\ mounted
    /\ session[s] = "Idle"
    /\ \A r \in DOMAIN session : r < s => session[r] # "Idle"
    /\ error' = NoError
    /\ audioBlob' = NoBlob
    /\ chunksRef' = << >>
    /\ delivered' = << >>
    /\ session' = [session EXCEPT ![s] = "Acquiring"]
    /\ lastOp' = "start"
    /\ UNCHANGED <<isRecording, audioStream, audioContextRef, processorRef, streamRef,
                   timerRef, isRecordingRef, mounted, envVars, blobs, errs, nextFrame>>

\* the catch block of startRecording, lines 60-65, run by session s
\* (a session another start() left Active loses the flag with it)
CatchBlock(s) ==
    /\ error' = MicError
    /\ isRecording' = FALSE
    /\ isRecordingRef' = FALSE
    /\ session' = [r \in DOMAIN session |->
                      IF r = s THEN "Failed"
                      ELSE IF session[r] = "Active" THEN "Aborted" ELSE session[r]]
    /\ errs' = [errs EXCEPT ![s] = @ + 1]
    /\ lastOp' = "startFailed"

\* getUserMedia rejects (line 23 throws): nothing was acquired
StartRejected(s) ==
    /\ session[s] = "Acquiring"
    /\ CatchBlock(s)
    /\ UNCHANGED <<audioBlob, audioStream, audioContextRef, processorRef, streamRef,
                   chunksRef, timerRef, mounted, envVars, blobs, delivered, nextFrame>>

\* getUserMedia resolves, lines 29-30 run, and `new AudioContext` (line 32)
\* throws: the stream is acquired and published, then the catch block runs
StartFailsAtContext(s) ==
    /\ session[s] = "Acquiring"
    /\ stream' = [stream EXCEPT ![s] = "live"]
    /\ streamRef' = s
    /\ audioStream' = s
    /\ CatchBlock(s)
    /\ UNCHANGED <<audioBlob, audioContextRef, processorRef, chunksRef, timerRef, mounted,
                   stopCalls, ctx, closeCalls, proc, timer, blobs, delivered, nextFrame>>

\* lines 29-33 run and building the graph (createMediaStreamSource, line 35,
\* or createScriptProcessor, line 37) throws: stream and context are acquired
StartFailsAtGraph(s) ==
    /\ session[s] = "Acquiring"
    /\ stream' = [stream EXCEPT ![s] = "live"]
    /\ streamRef' = s
    /\ audioStream' = s
    /\ ctx' = [ctx EXCEPT ![s] = "running"]
    /\ audioContextRef' = s
    /\ CatchBlock(s)
    /\ UNCHANGED <<audioBlob, processorRef, chunksRef, timerRef, mounted,
                   stopCalls, closeCalls, proc, timer, blobs, delivered, nextFrame>>

\* startRecording without lines 54-58: no auto-stop timer is armed
StartSucceeds_unarmed(s) ==
    /\ session[s] = "Acquiring"
    /\ stream' = [stream EXCEPT ![s] = "live"]
    /\ streamRef' = s
    /\ audioStream' = s
    /\ ctx' = [ctx EXCEPT ![s] = "running"]
    /\ audioContextRef' = s
    /\ proc' = [proc EXCEPT ![s] = "connected"]
    /\ processorRef' = s
    /\ isRecordingRef' = TRUE
    /\ isRecording' = TRUE
    /\ session' = [session EXCEPT ![s] = "Active"]
    /\ lastOp' = "started"
    /\ UNCHANGED <<audioBlob, error, chunksRef, timerRef, mounted, stopCalls, closeCalls,
                   timer, blobs, errs, delivered, nextFrame>>

\* startRecording, lines 29-58, without an exception
StartSucceeds(s) ==
    /\ session[s] = "Acquiring"
    /\ stream' = [stream EXCEPT ![s] = "live"]
    /\ streamRef' = s
    /\ audioStream' = s
    /\ ctx' = [ctx EXCEPT ![s] = "running"]
    /\ audioContextRef' = s
    /\ proc' = [proc EXCEPT ![s] = "connected"]
    /\ processorRef' = s
    /\ isRecordingRef' = TRUE
    /\ isRecording' = TRUE
    /\ timer' = [timer EXCEPT ![s] = "pending"]
    /\ timerRef' = s
    /\ session' = [session EXCEPT ![s] = "Active"]
    /\ lastOp' = "started"
    /\ UNCHANGED <<audioBlob, error, chunksRef, mounted, stopCalls, closeCalls,
                   blobs, errs, delivered, nextFrame>>

\* stopRecording, lines 71-72, with line 71 lost: the ref keeps its value
LeaveActive_flagKept ==
    /\ isRecordingRef' = isRecordingRef
    /\ isRecording' = FALSE

\* stopRecording, lines 71-72: the session leaves Active
LeaveActive ==
    /\ isRecordingRef' = FALSE
    /\ isRecording' = FALSE

\* stopRecording, lines 71-92: what runs past the guard of line 69
StopBody(tmr) ==
    /\ LeaveActive
    /\ timer' = clearTimeout(tmr, timerRef)
    /\ timerRef' = NoRef
    /\ IF processorRef # NoRef /\ audioContextRef # NoRef
       THEN /\ proc' = [proc EXCEPT ![processorRef] = "disconnected"]
            /\ ctx' = [ctx EXCEPT ![audioContextRef] = "closed"]
            /\ closeCalls' = [closeCalls EXCEPT ![audioContextRef] = @ + 1]
       ELSE UNCHANGED <<proc, ctx, closeCalls>>
    /\ IF streamRef # NoRef
       THEN /\ stream' = [stream EXCEPT ![streamRef] = "stopped"]
            /\ stopCalls' = [stopCalls EXCEPT ![streamRef] = @ + 1]
       ELSE UNCHANGED <<stream, stopCalls>>
    /\ audioStream' = NoRef
    /\ audioBlob' = encodeWAV(Arrays(chunksRef), SampleRate)
    /\ session' = [r \in DOMAIN session |->
                      IF session[r] = "Active" THEN "Finalized" ELSE session[r]]
    /\ blobs' = IF streamRef # NoRef THEN [blobs EXCEPT ![streamRef] = @ + 1]
                ELSE blobs
    /\ UNCHANGED <<error, audioContextRef, processorRef, streamRef, chunksRef,
                   mounted, errs, delivered, nextFrame>>

\* stopRecording with the guard of line 69 lost
stopRecording_noGuard(tmr, op) ==
    /\ lastOp' = op
    /\ StopBody(tmr)

\* stopRecording, lines 68-94.  tmr is the timeout table the call starts from
\* and op the handler it runs in (the caller's stop() or the timer callback).
stopRecording(tmr, op) ==
    /\ lastOp' = op
    /\ IF ~isRecordingRef
       THEN /\ timer' = tmr
            /\ UNCHANGED <<reactVars, refVars, mounted, stream, stopCalls, ctx, closeCalls,
                           proc, session, blobs, errs, delivered, nextFrame>>
       ELSE StopBody(tmr)

\* the caller invokes stop(); the closure stays callable after unmount
StopCall == stopRecording(timer, "stop")

\* the timer callback tearing the session down itself instead of calling
\* stopRecording: flags and timer only, nothing released, nothing encoded
TimerFire_ownTeardown(t) ==
    /\ timer[t] = "pending"
    /\ timer' = [timer EXCEPT ![t] = "fired"]
    /\ lastOp' = "timer"
    /\ isRecordingRef' = FALSE
    /\ isRecording' = FALSE
    /\ timerRef' = NoRef
    /\ session' = [r \in DOMAIN session |->
                      IF session[r] = "Active" THEN "Finalized" ELSE session[r]]
    /\ UNCHANGED <<audioBlob, error, audioStream, audioContextRef, processorRef, streamRef,
                   chunksRef, mounted, stream, stopCalls, ctx, closeCalls, proc,
                   blobs, errs, delivered, nextFrame>>

\* the timeout armed at lines 54-58 by session t elapses
TimerFire(t) ==
    /\ timer[t] = "pending"
    /\ IF isRecordingRef
       THEN stopRecording([timer EXCEPT ![t] = "fired"], "timer")
       ELSE /\ timer' = [timer EXCEPT ![t] = "fired"]
            /\ lastOp' = "timer"
            /\ UNCHANGED <<reactVars, refVars, mounted, stream, stopCalls, ctx, closeCalls,
                           proc, session, blobs, errs, delivered, nextFrame>>

\* onaudioprocess with the guard of line 41 lost
onaudioprocess_noGuard(f) == chunksRef' = Append(chunksRef, f)

\* processor.onaudioprocess, lines 40-45, on the frame f
onaudioprocess(f) ==
    IF ~isRecordingRef
    THEN UNCHANGED chunksRef
    ELSE chunksRef' = Append(chunksRef, f)

\* the graph of session s delivers a frame holding the samples d: a connected
\* ScriptProcessor of a running context fires onaudioprocess
Frame(s, d) ==
    /\ nextFrame <= MaxFrames
    /\ proc[s] = "connected"
    /\ ctx[s] = "running"
    /\ onaudioprocess([id |-> nextFrame, src |-> s, data |-> d])
    /\ delivered' = IF isRecordingRef
                    THEN Append(delivered, [id |-> nextFrame, src |-> s, data |-> d])
                    ELSE delivered
    /\ nextFrame' = nextFrame + 1
    /\ lastOp' = "frame"
    /\ UNCHANGED <<reactVars, audioContextRef, processorRef, streamRef, timerRef,
                   isRecordingRef, mounted, envVars, session, blobs, errs>>

\* the cleanup of the unmount effect, lines 97-105
Unmount ==
    /\ mounted
    /\ mounted' = FALSE
    /\ timer' = clearTimeout(timer, timerRef)
    /\ IF isRecordingRef /\ streamRef # NoRef
       THEN /\ stream' = [stream EXCEPT ![streamRef] = "stopped"]
            /\ stopCalls' = [stopCalls EXCEPT ![streamRef] = @ + 1]
       ELSE UNCHANGED <<stream, stopCalls>>
    /\ IF isRecordingRef /\ audioContextRef # NoRef
       THEN /\ ctx' = [ctx EXCEPT ![audioContextRef] = "closed"]
            /\ closeCalls' = [closeCalls EXCEPT ![audioContextRef] = @ + 1]
       ELSE UNCHANGED <<ctx, closeCalls>>
    /\ session' = [r \in DOMAIN session |->
                      IF session[r] = "Active" THEN "Discarded" ELSE session[r]]
    /\ lastOp' = "unmount"
    /\ UNCHANGED <<reactVars, refVars, proc, blobs, errs, delivered, nextFrame>>

Next ==
    \/ \E s \in Sessions : StartCall(s) /\ UNCHANGED outerVars
    \/ \E s \in Sessions : StartRejected(s) /\ UNCHANGED outerVars
    \/ \E s \in Sessions : StartFailsAtContext(s) /\ UNCHANGED outerVars
    \/ \E s \in Sessions : StartFailsAtGraph(s) /\ UNCHANGED outerVars
    \/ \E s \in Sessions : StartSucceeds(s) /\ UNCHANGED outerVars
    \/ StopCall /\ UNCHANGED outerVars
    \/ \E t \in Sessions : TimerFire(t) /\ UNCHANGED outerVars
    \/ \E s \in Sessions, d \in FrameInputs : Frame(s, d) /\ UNCHANGED outerVars
    \/ Unmount /\ UNCHANGED outerVars

Spec == Init /\ [][Next]_vars

\* --------------------------------------------- the stop path, line by line
\* StepSpec runs stopRecording as the sequence of its statements.  While the
\* handler is between two statements lastOp holds its position, "<op>:<line>"
\* meaning that the handler called by op is about to run that line; no other
\* handler runs until it returns (JavaScript runs a handler to completion).
StopOps == {"stop", "timer"}

StopPc == [stop  |-> [l74 |-> "stop:74",  l79 |-> "stop:79",  l90 |-> "stop:90"],
           timer |-> [l74 |-> "timer:74", l79 |-> "timer:79", l90 |-> "timer:90"]]

MidStop == \E op \in StopOps : lastOp \in {StopPc[op].l74, StopPc[op].l79, StopPc[op].l90}

\* stopRecording, lines 69-72: the guard, then the session leaves Active
StopEnter(tmr, op) ==
    /\ ~MidStop
    /\ IF ~isRecordingRef
       THEN /\ lastOp' = op
            /\ timer' = tmr
            /\ UNCHANGED <<reactVars, refVars, mounted, stream, stopCalls, ctx, closeCalls,
                           proc, session, blobs, errs, delivered, nextFrame>>
       ELSE /\ LeaveActive
            /\ timer' = tmr
            /\ session' = [r \in DOMAIN session |->
                              IF session[r] = "Active" THEN "Finalized" ELSE session[r]]
            /\ lastOp' = StopPc[op].l74
            /\ UNCHANGED <<audioBlob, error, audioStream, audioContextRef, processorRef,
                           streamRef, chunksRef, timerRef, mounted, stream, stopCalls, ctx,
                           closeCalls, proc, blobs, errs, delivered, nextFrame>>

\* stopRecording, lines 74-77: the auto-stop timer is disarmed
StopDisarm(op) ==
    /\ lastOp = StopPc[op].l74
    /\ timer' = clearTimeout(timer, timerRef)
    /\ timerRef' = NoRef
    /\ lastOp' = StopPc[op].l79
    /\ UNCHANGED <<reactVars, audioContextRef, processorRef, streamRef, chunksRef,
                   isRecordingRef, mounted, stream, stopCalls, ctx, closeCalls, proc,
                   session, blobs, errs, delivered, nextFrame>>

\* stopRecording, lines 79-88: the graph and the stream are released
StopRelease(op) ==
    /\ lastOp = StopPc[op].l79
    /\ IF processorRef # NoRef /\ audioContextRef # NoRef
       THEN /\ proc' = [proc EXCEPT ![processorRef] = "disconnected"]
            /\ ctx' = [ctx EXCEPT ![audioContextRef] = "closed"]
            /\ closeCalls' = [closeCalls EXCEPT ![audioContextRef] = @ + 1]
       ELSE UNCHANGED <<proc, ctx, closeCalls>>
    /\ IF streamRef # NoRef
       THEN /\ stream' = [stream EXCEPT ![streamRef] = "stopped"]
            /\ stopCalls' = [stopCalls EXCEPT ![streamRef] = @ + 1]
       ELSE UNCHANGED <<stream, stopCalls>>
    /\ audioStream' = NoRef
    /\ lastOp' = StopPc[op].l90
    /\ UNCHANGED <<isRecording, audioBlob, error, refVars, mounted, timer,
                   session, blobs, errs, delivered, nextFrame>>

\* lines 90-92 moved before the release of lines 79-88, which is then skipped
StopEncode_beforeRelease(op) ==
    /\ lastOp = StopPc[op].l79
    /\ audioBlob' = encodeWAV(Arrays(chunksRef), SampleRate)
    /\ blobs' = IF streamRef # NoRef THEN [blobs EXCEPT ![streamRef] = @ + 1]
                ELSE blobs
    /\ lastOp' = op
    /\ UNCHANGED <<isRecording, error, audioStream, refVars, mounted, envVars,
                   session, errs, delivered, nextFrame>>

\* stopRecording, lines 90-92: the buffer is encoded and the blob published
StopEncode(op) ==
    /\ lastOp = StopPc[op].l90
    /\ audioBlob' = encodeWAV(Arrays(chunksRef), SampleRate)
    /\ blobs' = IF streamRef # NoRef THEN [blobs EXCEPT ![streamRef] = @ + 1]
                ELSE blobs
    /\ lastOp' = op
    /\ UNCHANGED <<isRecording, error, audioStream, refVars, mounted, envVars,
                   session, errs, delivered, nextFrame>>

\* the timer callback, lines 54-58, entering stopRecording
StepTimerFire(t) ==
    /\ ~MidStop
    /\ timer[t] = "pending"
    /\ IF isRecordingRef
       THEN StopEnter([timer EXCEPT ![t] = "fired"], "timer")
       ELSE /\ timer' = [timer EXCEPT ![t] = "fired"]
            /\ lastOp' = "timer"
            /\ UNCHANGED <<reactVars, refVars, mounted, stream, stopCalls, ctx, closeCalls,
                           proc, session, blobs, errs, delivered, nextFrame>>

StepNext ==
    \/ ~MidStop /\ \E s \in Sessions : StartCall(s) /\ UNCHANGED outerVars
    \/ ~MidStop /\ \E s \in Sessions : StartRejected(s) /\ UNCHANGED outerVars
    \/ ~MidStop /\ \E s \in Sessions : StartFailsAtContext(s) /\ UNCHANGED outerVars
    \/ ~MidStop /\ \E s \in Sessions : StartFailsAtGraph(s) /\ UNCHANGED outerVars
    \/ ~MidStop /\ \E s \in Sessions : StartSucceeds(s) /\ UNCHANGED outerVars
    \/ ~MidStop /\ \E s \in Sessions, d \in FrameInputs : Frame(s, d) /\ UNCHANGED outerVars
    \/ ~MidStop /\ Unmount /\ UNCHANGED outerVars
    \/ StopEnter(timer, "stop") /\ UNCHANGED outerVars
    \/ \E t \in Sessions : StepTimerFire(t) /\ UNCHANGED outerVars
    \/ \E op \in StopOps : StopDisarm(op) /\ UNCHANGED outerVars
    \/ \E op \in StopOps : StopRelease(op) /\ UNCHANGED outerVars
    \/ \E op \in StopOps : StopEncode(op) /\ UNCHANGED outerVars

StepSpec == Init /\ [][StepNext]_vars

\* ------------------------------------------------- the encoder on its own
\* EncSpec applies encodeWAV, as stopRecording does at lines 91-92, to every
\* buffer of a bounded family: chunksRef holds the input, audioBlob receives
\* the result.

\* all sequences over S of length at most n
SeqsUpTo(S, n) == UNION {[1..k -> S] : k \in 0..n}

\* sample values for the structure of a buffer, and for quantization: every
\* value in [-1, 1] and some outside
StructSamples == {-1, SampleDen}
QuantSamples == (-SampleDen..SampleDen)
                    \cup {-2 * SampleDen, -SampleDen - 1, SampleDen + 1, 2 * SampleDen}

\* the buffers encoded: up to MaxEncFrames frames of up to MaxEncLen samples,
\* and single frames of up to MaxQuantLen samples over the wide value range
EncBuffers ==
    SeqsUpTo(SeqsUpTo(StructSamples, MaxEncLen), MaxEncFrames)
        \cup {<<f>> : f \in SeqsUpTo(QuantSamples, MaxQuantLen)}

\* the frames of a buffer holding the given arrays
AsFrames(arrays) == [i \in 1..Len(arrays) |-> [id |-> i, src |-> 1, data |-> arrays[i]]]

\* the sample rates passed to the encoder
Rates == {SampleRate, 44100}

EncInit ==
    /\ chunksRef \in {AsFrames(b) : b \in EncBuffers}
    /\ isRecording = FALSE
    /\ audioBlob = NoBlob
    /\ error = NoError
    /\ audioStream = NoRef
    /\ audioContextRef = NoRef
    /\ processorRef = NoRef
    /\ streamRef = NoRef
    /\ timerRef = NoRef
    /\ isRecordingRef = FALSE
    /\ mounted = TRUE
    /\ stream = [s \in Sessions |-> "none"]
    /\ stopCalls = [s \in Sessions |-> 0]
    /\ ctx = [s \in Sessions |-> "none"]
    /\ closeCalls = [s \in Sessions |-> 0]
    /\ proc = [s \in Sessions |-> "none"]
    /\ timer = [s \in Sessions |-> "none"]
    /\ session = [s \in Sessions |-> "Idle"]
    /\ blobs = [s \in Sessions |-> 0]
    /\ errs = [s \in Sessions |-> 0]
    /\ delivered = << >>
    /\ nextFrame = 1
    /\ lastOp = "init"
    /\ PageInit
    /\ encRate \in Rates

\* an encoder that consumes the buffer it reads
Encode_consumesBuffer ==
    /\ audioBlob = NoBlob
    /\ audioBlob' = encodeWAV(Arrays(chunksRef), encRate)
    /\ chunksRef' = << >>
    /\ lastOp' = "encode"
    /\ UNCHANGED <<isRecording, error, audioStream, audioContextRef, processorRef,
                   streamRef, timerRef, isRecordingRef, mounted, envVars,
                   session, blobs, errs, delivered, nextFrame, outerVars>>

\* encodeWAV(chunks, rate) called and its result published, as stopRecording
\* does at lines 91-92 with rate 16000
Encode ==
    /\ audioBlob = NoBlob
    /\ audioBlob' = encodeWAV(Arrays(chunksRef), encRate)
    /\ lastOp' = "encode"
    /\ UNCHANGED <<isRecording, error, audioStream, refVars, mounted, envVars,
                   session, blobs, errs, delivered, nextFrame, outerVars>>

EncNext == Encode

EncSpec == EncInit /\ [][EncNext]_vars

\* ------------------------------------------------------- the page (Home)
\* PageSpec is the hook driven by the page that uses it: startRecording and
\* stopRecording are called by handleStart and handleStop only, and the
\* effects on recorderError and audioBlob run with the update that triggers
\* them.  The device delivers no frames here: the page never reads samples.

PageSessions == 1..MaxPageSessions

\* what the page's own handlers leave alone
hookState == <<reactVars, refVars, mounted, envVars, session, blobs, errs, delivered,
               nextFrame, encRate>>

PageSpecInit ==
    /\ HookInit(PageSessions)
    /\ PageInit
    /\ encRate = SampleRate

\* handleAudioUpload, lines 70-73: up to the await of sendAudioToBackend
handleAudioUpload ==
    /\ appState' = "processing"
    /\ uploads' = uploads + 1
    /\ handed' = handed + 1
    /\ UNCHANGED <<result, actionTimers, errorTimers, feedbacks>>

\* the effect on audioBlob, lines 52-57, after an update that published a
\* blob (published) or did not
AudioBlobEffect(published) ==
    IF published /\ mounted /\ appState = "recording"
    THEN handleAudioUpload
    ELSE UNCHANGED pageVars

\* the effect on recorderError, lines 41-50: it runs when the error value
\* changes, and sets the page idle when the error is set
RecorderErrorEffect ==
    IF mounted /\ error' # error /\ error' # NoError
    THEN /\ appState' = "idle"
         /\ UNCHANGED <<result, actionTimers, errorTimers, uploads, feedbacks, handed>>
    ELSE UNCHANGED pageVars

\* handleStart, lines 59-63: offered by the idle view only (lines 179-194)
handleStart(s) ==
    /\ appState = "idle"
    /\ StartCall(s)
    /\ appState' = "recording"
    /\ result' = "null"
    /\ UNCHANGED <<actionTimers, errorTimers, uploads, feedbacks, handed, encRate>>

\* handleStop, lines 65-68: offered by the recording view only
handleStop ==
    /\ mounted
    /\ appState = "recording"
    /\ StopCall
    /\ AudioBlobEffect(isRecordingRef)
    /\ UNCHANGED encRate

\* the hook's auto-stop timer fires
PageTimerFire(t) ==
    /\ TimerFire(t)
    /\ AudioBlobEffect(isRecordingRef)
    /\ UNCHANGED encRate

\* sendAudioToBackend resolves, lines 75-76
UploadResolves ==
    /\ mounted
    /\ uploads > 0
    /\ uploads' = uploads - 1
    /\ result' = "data"
    /\ appState' = "result"
    /\ lastOp' = "uploadResolved"
    /\ UNCHANGED <<actionTimers, errorTimers, feedbacks, handed, hookState>>

\* sendAudioToBackend rejects, lines 77-86
UploadFails ==
    /\ mounted
    /\ uploads > 0
    /\ errorTimers < MaxPageTimers
    /\ uploads' = uploads - 1
    /\ appState' = "error"
    /\ errorTimers' = errorTimers + 1
    /\ lastOp' = "uploadFailed"
    /\ UNCHANGED <<result, actionTimers, feedbacks, handed, hookState>>

\* the 3 s timeout of line 85 fires
ErrorTimerFire ==
    /\ mounted
    /\ errorTimers > 0
    /\ errorTimers' = errorTimers - 1
    /\ appState' = "idle"
    /\ lastOp' = "errorTimer"
    /\ UNCHANGED <<result, actionTimers, uploads, feedbacks, handed, hookState>>

\* handleAction, lines 89-102: offered by the result view
handleAction ==
    /\ mounted
    /\ appState = "result" /\ result = "data"
    /\ actionTimers < MaxPageTimers
    /\ actionTimers' = actionTimers + 1
    /\ lastOp' = "action"
    /\ UNCHANGED <<appState, result, errorTimers, uploads, feedbacks, handed, hookState>>

\* the 2 s timeout of lines 97-101 fires
ActionTimerFire ==
    /\ mounted
    /\ actionTimers > 0
    /\ actionTimers' = actionTimers - 1
    /\ appState' = "idle"
    /\ result' = "null"
    /\ lastOp' = "actionTimer"
    /\ UNCHANGED <<errorTimers, uploads, feedbacks, handed, hookState>>

\* handleFeedbackSubmit, lines 104-116: up to the await of submitFeedback;
\* feedbacks counts the calls in flight that carry a correction
handleFeedbackSubmit(embeddingId, correction) ==
    /\ mounted
    /\ appState = "result" /\ result = "data"
    /\ feedbacks < MaxPageTimers
    /\ feedbacks' = IF embeddingId # "null" /\ correction THEN feedbacks + 1 ELSE feedbacks
    /\ lastOp' = "feedback"
    /\ UNCHANGED <<appState, result, actionTimers, errorTimers, uploads, handed, hookState>>

\* submitFeedback resolves for a correction, lines 117-129
FeedbackResolves ==
    /\ mounted
    /\ feedbacks > 0
    /\ feedbacks' = feedbacks - 1
    /\ appState' = "feedback_submitted"
    /\ lastOp' = "feedbackResolved"
    /\ UNCHANGED <<result, actionTimers, errorTimers, uploads, handed, hookState>>

\* submitFeedback rejects, lines 130-139
FeedbackFails ==
    /\ mounted
    /\ feedbacks > 0
    /\ feedbacks' = feedbacks - 1
    /\ lastOp' = "feedbackFailed"
    /\ UNCHANGED <<appState, result, actionTimers, errorTimers, uploads, handed, hookState>>

\* resetSession, lines 141-145: offered by the result and feedback views
resetSession ==
    /\ mounted
    /\ \/ appState = "result" /\ result = "data"
       \/ appState = "feedback_submitted"
    /\ appState' = "idle"
    /\ result' = "null"
    /\ lastOp' = "reset"
    /\ UNCHANGED <<actionTimers, errorTimers, uploads, feedbacks, handed, hookState>>

PageNext ==
    \/ \E s \in PageSessions : handleStart(s)
    \/ handleStop
    \/ \E s \in PageSessions : StartRejected(s) /\ RecorderErrorEffect /\ UNCHANGED encRate
    \/ \E s \in PageSessions : StartFailsAtContext(s) /\ RecorderErrorEffect /\ UNCHANGED encRate
    \/ \E s \in PageSessions : StartFailsAtGraph(s) /\ RecorderErrorEffect /\ UNCHANGED encRate
    \/ \E s \in PageSessions : StartSucceeds(s) /\ UNCHANGED outerVars
    \/ \E t \in PageSessions : PageTimerFire(t)
    \/ Unmount /\ UNCHANGED outerVars
    \/ UploadResolves
    \/ UploadFails
    \/ ErrorTimerFire
    \/ handleAction
    \/ ActionTimerFire
    \/ \E e \in {"null", "id"}, c \in BOOLEAN : handleFeedbackSubmit(e, c)
    \/ FeedbackResolves
    \/ FeedbackFails
    \/ resetSession

PageSpec == PageSpecInit /\ [][PageNext]_vars

\* ================================================================ claims
\* a session that is over, whichever way it ended
Ended(s) == session[s] \in {"Finalized", "Failed", "Aborted", "Discarded"}

\* a step in which stopRecording runs past its guard
StopRuns == isRecordingRef /\ lastOp' \in {"stop", "timer"}

\* C1: every session that is over (stopped by stop() or by the timer, failed
\* in start(), or discarded by the unmount cleanup) has produced exactly one
\* outcome, an encoded blob or a capture error.
C1_ExactlyOneOutcome ==
    \A s \in Sessions : Ended(s) => blobs[s] + errs[s] = 1

\* C2: stop() and the auto-stop timer on one Active session, in either order,
\* and stop() called twice: no session gets a second blob, no stream or
\* context of a session still owned by a live controller is released twice,
\* and the session the stop path completed has its stream stopped, its
\* context closed and its processor disconnected exactly once, with its
\* timer no longer pending.
C2_StopOnce ==
    \A s \in Sessions :
        /\ blobs[s] <= 1
        /\ session[s] # "Discarded" => stopCalls[s] <= 1 /\ closeCalls[s] <= 1
        /\ (session[s] = "Finalized" /\ blobs[s] = 1) =>
              /\ stopCalls[s] = 1 /\ stream[s] = "stopped"
              /\ closeCalls[s] = 1 /\ ctx[s] = "closed"
              /\ proc[s] = "disconnected"
              /\ timer[s] \in {"fired", "cleared"}

\* C2 witness: the only session was completed by its timer, and then the
\* caller's stop() arrived.
C2_Witness ==
    \E s \in Sessions :
        /\ \A r \in Sessions \ {s} : session[r] = "Idle"
        /\ session[s] = "Finalized"
        /\ timer[s] = "fired"
        /\ lastOp = "stop"
        /\ blobs[s] = 1 /\ stopCalls[s] = 1 /\ closeCalls[s] = 1

\* C3: each acquired device stream is released exactly once: never stopped
\* a second time, and not left live once its session is over.
C3_ReleasedExactlyOnce ==
    \A s \in Sessions :
        /\ stopCalls[s] <= 1
        /\ Ended(s) => stream[s] # "live"

\* C4: a live (acquired, not released) device stream exists if and only if
\* the session is Active (isRecordingRef is true).
C4_StreamIffActive ==
    (\E s \in Sessions : stream[s] = "live") <=> isRecordingRef

\* C5: at most one session is Active at a time: never two live streams, two
\* live processing graphs or two armed auto-stop timers.
C5_AtMostOneActive ==
    /\ Cardinality({s \in Sessions : session[s] = "Active"}) <= 1
    /\ Cardinality({s \in Sessions : stream[s] = "live"}) <= 1
    /\ Cardinality({s \in Sessions : ctx[s] = "running"}) <= 1
    /\ Cardinality({s \in Sessions : proc[s] = "connected"}) <= 1
    /\ Cardinality({s \in Sessions : timer[s] = "pending"}) <= 1

\* C6: when start() has just ended in its failure branch the error is set,
\* the recording flag is false and no timer is armed; and a Failed session
\* holds no live stream and no running audio context.
C6_FailedStartHoldsNothing ==
    /\ lastOp = "startFailed" =>
          /\ error = MicError
          /\ ~isRecordingRef /\ ~isRecording
          /\ \A s \in Sessions : timer[s] # "pending"
    /\ \A s \in Sessions :
          session[s] = "Failed" => stream[s] # "live" /\ ctx[s] # "running"

\* C7: a frame delivered while the session is not Active (after stop() has
\* begun included) leaves the sample buffer and the published blob as they
\* are; no frame delivery changes the blob; and when the stop path runs, the
\* buffer it encodes is exactly the frames delivered while Active since the
\* buffer was reset, that is, the delivery sequence cut where stop() began.
C7_FramesAfterStopDropped ==
    [][ /\ (lastOp' = "frame" /\ ~isRecordingRef) => UNCHANGED <<chunksRef, audioBlob>>
        /\ lastOp' = "frame" => audioBlob' = audioBlob
        /\ StopRuns => /\ audioBlob' = encodeWAV(Arrays(delivered), SampleRate)
                       /\ chunksRef' = delivered
      ]_vars

\* C7 witness: a frame was appended, the stop path encoded the buffer, and a
\* frame delivered afterwards (by a graph still connected) was dropped.
C7_Witness ==
    /\ lastOp = "frame"
    /\ ~isRecordingRef
    /\ Len(chunksRef) >= 1
    /\ nextFrame - 1 > Len(chunksRef)
    /\ audioBlob = encodeWAV(Arrays(chunksRef), SampleRate)

\* C8: a session stays Active only with the timer armed by its own start()
\* pending, and once that timer has fired the session has produced its
\* encoded blob.
C8_AutoStopCompletes ==
    \A s \in Sessions :
        /\ session[s] = "Active" => timer[s] = "pending"
        /\ timer[s] = "fired" => blobs[s] = 1

\* C9: once the unmount cleanup has run, no device stream is live, no audio
\* context is running and no auto-stop timer is pending.
C9_NothingHeldAfterUnmount ==
    ~mounted =>
        \A s \in Sessions :
            stream[s] # "live" /\ ctx[s] # "running" /\ timer[s] # "pending"

\* C10: stop() called while no session is Active changes nothing: no React
\* state, no ref, no browser object, no timer, no outcome.
C10_StopWhenNotActiveIsNoOp ==
    [][ (lastOp' = "stop" /\ ~isRecordingRef) =>
            UNCHANGED <<hookVars, mounted, session, blobs, errs, delivered, nextFrame>>
      ]_vars

\* C10 witness: stop() has just run while a start() was still awaiting the
\* device and no session had ever become Active, and nothing is published,
\* released or recorded.
C10_Witness ==
    /\ lastOp = "stop"
    /\ \E s \in Sessions : session[s] = "Acquiring"
    /\ \A s \in Sessions : session[s] \in {"Idle", "Acquiring"}
    /\ \A s \in Sessions : stream[s] = "none" /\ timer[s] = "none" /\ blobs[s] = 0
    /\ audioBlob = NoBlob /\ error = NoError /\ ~isRecordingRef /\ ~isRecording

\* C11: within one run of the stop path the steps come in this order: the
\* session leaves Active, then the timer is disarmed, then the graph and the
\* stream are released, and only then is the buffer encoded and the blob
\* published.  (Checked under StepSpec, which runs the path statement by
\* statement.)
C11_StopOrder ==
    [][ /\ blobs' # blobs =>
              /\ ~isRecordingRef /\ ~isRecording
              /\ timerRef = NoRef
              /\ audioStream = NoRef
              /\ streamRef # NoRef /\ stream[streamRef] = "stopped"
              /\ audioContextRef # NoRef /\ ctx[audioContextRef] = "closed"
              /\ processorRef # NoRef /\ proc[processorRef] = "disconnected"
        /\ (stopCalls' # stopCalls /\ lastOp' # "unmount") =>
              ~isRecordingRef /\ timerRef = NoRef /\ blobs' = blobs
        /\ (timerRef # NoRef /\ timerRef' = NoRef) =>
              ~isRecordingRef /\ stream' = stream /\ ctx' = ctx /\ blobs' = blobs
      ]_vars

\* C11 witness: a stop path has run to its end on a buffer holding a frame:
\* timer cleared, stream stopped, context closed, blob published.
C11_Witness ==
    /\ lastOp = "stop"
    /\ Len(chunksRef) >= 1
    /\ audioBlob = encodeWAV(Arrays(chunksRef), SampleRate)
    /\ \E s \in Sessions :
          /\ blobs[s] = 1 /\ timer[s] = "cleared"
          /\ stream[s] = "stopped" /\ ctx[s] = "closed" /\ proc[s] = "disconnected"

\* C12: a stop run by the auto-stop timer and a stop run by the caller's
\* stop() reach the same post-state from the same Active state: whichever
\* of the two runs the stop path, the post-state is the same function of the
\* pre-state: recording flag false, timer reference cleared and its timer no
\* longer pending, graph and stream released, exposed stream null, and one
\* blob encoding the buffer as it stood.
C12_SameStopPath ==
    [][ StopRuns =>
          /\ ~isRecordingRef' /\ ~isRecording'
          /\ timerRef' = NoRef
          /\ timerRef # NoRef => timer'[timerRef] # "pending"
          /\ stream' = [stream EXCEPT ![streamRef] = "stopped"]
          /\ ctx' = [ctx EXCEPT ![audioContextRef] = "closed"]
          /\ proc' = [proc EXCEPT ![processorRef] = "disconnected"]
          /\ audioStream' = NoRef
          /\ audioBlob' = encodeWAV(Arrays(chunksRef), SampleRate)
          /\ blobs' = [blobs EXCEPT ![streamRef] = @ + 1]
          /\ UNCHANGED <<error, audioContextRef, processorRef, streamRef, chunksRef, mounted>>
      ]_vars

\* C12 witness: the timer has just run the stop path on a buffer holding a
\* frame, with the post-state an explicit stop() gives.
C12_Witness ==
    /\ lastOp = "timer"
    /\ ~isRecordingRef /\ ~isRecording /\ timerRef = NoRef /\ audioStream = NoRef
    /\ Len(chunksRef) >= 1
    /\ audioBlob = encodeWAV(Arrays(chunksRef), SampleRate)
    /\ \E s \in Sessions :
          /\ timer[s] = "fired" /\ blobs[s] = 1
          /\ stream[s] = "stopped" /\ ctx[s] = "closed" /\ proc[s] = "disconnected"

\* C13: when start() has just succeeded (the session has just become
\* Active) the sample buffer is empty and exactly one auto-stop timer is
\* pending, the one this start() armed.
C13_ActiveStartsClean ==
    lastOp = "started" =>
        /\ chunksRef = << >>
        /\ timerRef # NoRef /\ timer[timerRef] = "pending"
        /\ Cardinality({s \in Sessions : timer[s] = "pending"}) = 1

\* p is a prefix of q
IsPrefix(p, q) == Len(p) <= Len(q) /\ \A i \in 1..Len(p) : p[i] = q[i]

\* C14: across every step taken while a session is Active the previous
\* buffer contents are a prefix of the new contents.
C14_BufferGrowsWhileActive ==
    [][ isRecordingRef => IsPrefix(chunksRef, chunksRef') ]_vars

\* C15: when the stop path runs, the buffer it encodes holds only frames
\* delivered by the graph of the session it completes (the session whose
\* stream and graph it releases).
C15_OwnFramesOnly ==
    [][ StopRuns => \A i \in 1..Len(chunksRef) : chunksRef[i].src = streamRef ]_vars

\* ---------------------------------------------------- encoder claims
\* the flat sample sequence of a buffer: its frames' arrays end to end
RECURSIVE Concat(_)
Concat(arrays) == IF arrays = << >> THEN << >> ELSE Head(arrays) \o Concat(Tail(arrays))

\* the input of the encoding, flat; its total sample count
Flat == Concat(Arrays(chunksRef))
N == Len(Flat)

\* the unsigned 32-bit and signed 16-bit little-endian words at a byte offset
U32At(b, off) == b[off + 1] + 256 * b[off + 2] + 65536 * b[off + 3] + 16777216 * b[off + 4]
Int16At(b, off) ==
    LET u == b[off + 1] + 256 * b[off + 2]
    IN  IF u >= 32768 THEN u - 65536 ELSE u

Encoded == audioBlob # NoBlob

\* C16: a buffer whose frames hold N samples in total encodes to exactly
\* 44 + 2N bytes, and the data sub-chunk size field (bytes 40..43,
\* little-endian) is 2N.
C16_LengthAndDataSize ==
    Encoded => Len(audioBlob) = 44 + 2 * N /\ U32At(audioBlob, 40) = 2 * N

C16_Witness ==
    /\ Encoded
    /\ Len(chunksRef) = 2
    /\ Len(chunksRef[1].data) = 1 /\ Len(chunksRef[2].data) = 2
    /\ Len(audioBlob) = 50

\* C17: the RIFF size field (bytes 4..7) is 36 + 2N; a buffer with no
\* samples (no frames, or only empty frames) encodes to a 44-byte container
\* with data size 0 and size field 36.
C17_RiffSize ==
    Encoded =>
        /\ U32At(audioBlob, 4) = 36 + 2 * N
        /\ N = 0 => /\ Len(audioBlob) = 44
                    /\ U32At(audioBlob, 40) = 0
                    /\ U32At(audioBlob, 4) = 36

C17_Witness ==
    /\ Encoded
    /\ Len(chunksRef) >= 1
    /\ \A i \in 1..Len(chunksRef) : chunksRef[i].data = << >>
    /\ Len(audioBlob) = 44

\* the two bytes at an offset are the little-endian two's complement of v
IsInt16LE(b, off, v) ==
    /\ v \in -32768..32767
    /\ b[off + 1] = v % 256
    /\ b[off + 2] = (v % 65536) \div 256

\* C18: 1.0 encodes to 32767, -1.0 to -32768, and every input above 1.0 or
\* below -1.0 encodes as 1.0 or -1.0 does; every emitted word is a signed
\* 16-bit value.
C18_Boundaries ==
    Encoded =>
        \A i \in 1..N :
            /\ Flat[i] >= SampleDen => IsInt16LE(audioBlob, 44 + 2 * (i - 1), 32767)
            /\ Flat[i] <= -SampleDen => IsInt16LE(audioBlob, 44 + 2 * (i - 1), -32768)
            /\ Int16At(audioBlob, 44 + 2 * (i - 1)) \in -32768..32767

C18_Witness ==
    /\ Encoded
    /\ N = 2
    /\ Flat[1] > SampleDen /\ Flat[2] < -SampleDen
    /\ Int16At(audioBlob, 44) = 32767 /\ Int16At(audioBlob, 46) = -32768

\* v is num/SampleDen scaled by 32768 (negative) or 32767 (otherwise) and
\* truncated toward zero
IsScaledTruncated(num, v) ==
    \/ /\ num >= 0 /\ v >= 0
       /\ v * SampleDen <= num * 32767 /\ num * 32767 < (v + 1) * SampleDen
    \/ /\ num < 0 /\ v <= 0
       /\ v * SampleDen >= num * 32768 /\ num * 32768 > (v - 1) * SampleDen

\* C19: a sample within [-1, 1] encodes to the sample scaled by 32768 when
\* negative and by 32767 otherwise, truncated toward zero, written as a
\* little-endian signed 16-bit word; 0 encodes to 0 and no sign is flipped.
C19_ScaleAndTruncate ==
    Encoded =>
        \A i \in 1..N :
            Flat[i] \in -SampleDen..SampleDen =>
                LET v == Int16At(audioBlob, 44 + 2 * (i - 1))
                IN  /\ IsScaledTruncated(Flat[i], v)
                    /\ IsInt16LE(audioBlob, 44 + 2 * (i - 1), v)
                    /\ Flat[i] = 0 => v = 0
                    /\ Flat[i] > 0 => v >= 0
                    /\ Flat[i] < 0 => v <= 0

\* a negative sample whose scaled value has a fraction, and a positive one
C19_Witness ==
    /\ Encoded
    /\ N = 2
    /\ Flat[1] \in (-SampleDen + 1)..-1 /\ (Flat[1] * 32768) % SampleDen # 0
    /\ Flat[2] \in 1..(SampleDen - 1) /\ (Flat[2] * 32767) % SampleDen # 0
    /\ Int16At(audioBlob, 44) < 0

\* the number of samples in the frames before frame i
RECURSIVE LengthBefore(_, _)
LengthBefore(chunks, i) ==
    IF i <= 1 THEN 0 ELSE LengthBefore(chunks, i - 1) + Len(chunks[i - 1].data)

\* the sample clamped to [-1, 1]
Clamped(num) == IF num > SampleDen THEN SampleDen ELSE IF num < -SampleDen THEN -SampleDen ELSE num

\* C20: sample j (from 0) of frame i is written at byte offset
\* 44 + 2 * (samples in the frames before i + j): the payload is the
\* quantization of the frames end to end, nothing dropped, duplicated or
\* reordered.
C20_OrderPreserved ==
    Encoded =>
        /\ Len(audioBlob) = 44 + 2 * LengthBefore(chunksRef, Len(chunksRef) + 1)
        /\ \A i \in 1..Len(chunksRef) :
              \A j \in 1..Len(chunksRef[i].data) :
                  IsScaledTruncated(Clamped(chunksRef[i].data[j]),
                      Int16At(audioBlob, 44 + 2 * (LengthBefore(chunksRef, i) + (j - 1))))

C20_Witness ==
    /\ Encoded
    /\ Len(chunksRef) = 2
    /\ chunksRef[1].data = <<SampleDen, -1>>
    /\ chunksRef[2].data = <<-1, SampleDen>>
    /\ Int16At(audioBlob, 44) = 32767 /\ Int16At(audioBlob, 50) = 32767
    /\ Int16At(audioBlob, 46) < 0 /\ Int16At(audioBlob, 48) < 0

\* the unsigned 16-bit little-endian word at a byte offset
U16At(b, off) == b[off + 1] + 256 * b[off + 2]

\* C21: reading the header of encodeWAV(samples, sampleRate) back yields the
\* sample rate passed in, channel count 1, bit depth 16, and a sample count
\* (data size / 2) equal to the number of input samples.
C21_HeaderRoundTrip ==
    Encoded =>
        /\ U32At(audioBlob, 24) = encRate
        /\ U16At(audioBlob, 22) = 1
        /\ U16At(audioBlob, 34) = 16
        /\ U32At(audioBlob, 40) % 2 = 0
        /\ U32At(audioBlob, 40) \div 2 = N

C21_Witness ==
    /\ Encoded
    /\ encRate = 44100
    /\ N = 3
    /\ U32At(audioBlob, 24) = 44100

\* the four bytes at an offset
TagAt(b, off) == <<b[off + 1], b[off + 2], b[off + 3], b[off + 4]>>

\* C22: every container a session emits carries 'RIFF', 'WAVE', 'fmt ' with
\* sub-chunk size 16, format 1 (PCM), 1 channel, sample rate 16000, 16 bits
\* per sample, block align 2 = channels * bits / 8, byte rate = sample rate *
\* block align, and the 'data' tag at byte 36.
C22_FixedHeader ==
    Encoded =>
        /\ Len(audioBlob) >= 44
        /\ TagAt(audioBlob, 0) = <<82, 73, 70, 70>>
        /\ TagAt(audioBlob, 8) = <<87, 65, 86, 69>>
        /\ TagAt(audioBlob, 12) = <<102, 109, 116, 32>>
        /\ U32At(audioBlob, 16) = 16
        /\ U16At(audioBlob, 20) = 1
        /\ U16At(audioBlob, 22) = 1
        /\ U32At(audioBlob, 24) = 16000
        /\ U16At(audioBlob, 34) = 16
        /\ U16At(audioBlob, 32) = U16At(audioBlob, 22) * (U16At(audioBlob, 34) \div 8)
        /\ U16At(audioBlob, 32) = 2
        /\ U32At(audioBlob, 28) = U32At(audioBlob, 24) * U16At(audioBlob, 32)
        /\ TagAt(audioBlob, 36) = <<100, 97, 116, 97>>

C22_Witness ==
    /\ Encoded
    /\ lastOp \in {"stop", "timer"}
    /\ Len(chunksRef) >= 1
    /\ \E s \in Sessions : session[s] = "Finalized" /\ blobs[s] = 1

C25_OwnTimerOnly ==
    [][ /\ (\A s \in Sessions : session'[s] # "Active") =>
               (\A s \in Sessions : timer'[s] # "pending")
        /\ \A t \in Sessions :
               (timer[t] = "pending" /\ timer'[t] = "fired" /\ isRecordingRef) =>
                   streamRef = t
        /\ \A s \in Sessions :
               (session[s] = "Active" /\ session'[s] # "Active"
                   /\ lastOp' \notin {"stop", "unmount"}) =>
                   (timer[s] = "pending" /\ timer'[s] = "fired") ]_vars

C29_OneOutcomeField ==
    ~(audioBlob # NoBlob /\ error # NoError)

\* C30: audioStream is non-null if and only if isRecording is true.
C30_StreamOfferedIffRecording ==
    (audioStream # NoRef) <=> isRecording

\* ------------------------------------------------------------ page claims
\* C24: after a recording attempt fails in start() (the catch block has run
\* on the mounted page) the page is in the neutral 'idle' state, from which
\* a new attempt can be started, and the recorder is not recording.
C24_FailedStartReturnsToIdle ==
    [][ (errs' # errs /\ mounted) =>
            appState' = "idle" /\ ~isRecording' /\ ~isRecordingRef' ]_vars

\* C26: whenever the (mounted) page is in appState 'idle', the only state
\* offering the start button, the recorder is not recording and no start()
\* is pending.
C26_IdleMeansNoSession ==
    (mounted /\ appState = "idle") =>
        /\ ~isRecording /\ ~isRecordingRef
        /\ \A s \in PageSessions : session[s] \notin {"Acquiring", "Active"}

\* C27: every blob a session publishes is handed to sendAudioToBackend
\* exactly once: whenever the recorder publishes a blob the page is in
\* appState 'recording', moves to 'processing' and starts one upload.
C27_EveryBlobUploaded ==
    [][ (blobs' # blobs /\ mounted) =>
            appState = "recording" /\ appState' = "processing" /\ handed' = handed + 1
      ]_vars

\* C31: start() discards the previous outcome before acquisition begins:
\* right after the call, and for as long as the session it began (the
\* latest one) has produced no outcome of its own, audioBlob and error are
\* both null.
C31_StartDiscardsOutcome ==
    /\ lastOp = "start" => audioBlob = NoBlob /\ error = NoError
    /\ \A s \in Sessions :
          (/\ session[s] \in {"Acquiring", "Active"}
           /\ \A r \in Sessions : r > s => session[r] = "Idle") =>
              audioBlob = NoBlob /\ error = NoError

====
